---- MODULE Spec2Model ----
(***************************************************************************)
(* Model of the rtwire Go client (client/client.go): the response envelope *)
(* codec (do, doError), the query options, the resource and transaction    *)
(* operations built on the codec, the webhook parser (Unmarshal), and the  *)
(* remote service the operations talk to.  The remote service is not part  *)
(* of the repository; it is modelled from the contract reproduced in       *)
(* spec.md (sections 3, 4.3, 6 and 8).                                     *)
(***************************************************************************)
EXTENDS Integers, Sequences, FiniteSets, TLC

(***************************************************************************)
(* State.                                                                  *)
(***************************************************************************)
VARIABLES
    cfg,        \* the client struct: url, user, pass
    accounts,   \* service: accounts[id] is the balance of account id
    nextID,     \* service: the next transaction ID to assign
    issued,     \* service: IDs handed out by POST /transactions/
    consumed,   \* service: IDs used by a settled transfer or debit
    txns,       \* service: the transactions, oldest first
    hooks,      \* service: the registered hook URLs
    returned,   \* history (IssueSpec): IDs CreateTransactionIDs has returned
    moved,      \* moved[t]: settlements caused by calls made with txID t
    call,       \* the last call: operation, arguments, request, response,
                \* result, and the state it was made in
    inflight    \* inflight[k]: the call of concurrent caller k (ConcSpec)

vars == <<cfg, accounts, nextID, issued, consumed, txns, hooks,
          returned, moved, call, inflight>>

(***************************************************************************)
(* Bounds of the model.                                                    *)
(***************************************************************************)
MaxAccounts == 2
MaxTxIDs == 2
MaxIssued == 3
MaxN == 2
MaxBalance == 10
MaxHooks == 2
MaxURLLen == 2
MaxItems == 2
MaxOptions == 3
MaxCallers == 2

\* Amounts moved by credits, transfers and debits (satoshi).
Values == {5, 10}
\* Bytes hook URLs are made of.
URLBytes == {104, 255}
\* External addresses funds are debited to.
ExtAddresses == {<<49, 50>>}

(***************************************************************************)
(* Go error values.  errors.New returns a pointer to a fresh value, so an  *)
(* error made by errors.New is never == to a package-level sentinel, even  *)
(* when both carry the same text.  id is the identity, msg is Error().     *)
(***************************************************************************)
NoErr == [id |-> "nil", msg |-> ""]
ErrTxIDUsed == [id |-> "ErrTxIDUsed", msg |-> "TxID used"]
ErrInsufficientFunds == [id |-> "ErrInsufficientFunds", msg |-> "insufficient funds"]
ErrHookExists == [id |-> "ErrHookExists", msg |-> "hook exists"]
ErrorsNew(m) == [id |-> "new", msg |-> m]
\* fmt.Errorf("%v: %s", req.URL, body): the request target and the raw body.
Malformed(req, body) ==
    [id |-> "new", msg |-> "malformed response", target |-> req.target,
     body |-> body]
\* Error returned by http.Client.Do when the round trip fails.
TransportErr == [id |-> "transport", msg |-> "transport"]
\* Error returned by json.Unmarshal.
DecodeErr == [id |-> "json", msg |-> "json"]

(***************************************************************************)
(* Results of a call: a value with a nil error, a non-nil error, or a      *)
(* run-time panic (index out of range), which is not returned to the       *)
(* caller.                                                                 *)
(***************************************************************************)
Ok(v) == [kind |-> "ok", val |-> v, err |-> NoErr]
Fail(e) == [kind |-> "err", val |-> <<>>, err |-> e]
Panic == [kind |-> "panic", val |-> <<>>, err |-> NoErr]

(***************************************************************************)
(* JSON values on the wire.  A response is a transport failure or a status *)
(* code with a body; a body is empty, not an envelope, or an envelope      *)
(* {type, next, payload}; a payload is absent, null, not a list, or a list *)
(* of objects (records).                                                   *)
(***************************************************************************)
PAbsent == [k |-> "absent", items |-> <<>>]
PNull == [k |-> "null", items |-> <<>>]
PBad == [k |-> "bad", items |-> <<>>]
PList(s) == [k |-> "list", items |-> s]

EmptyBody == [k |-> "empty", type |-> "", next |-> "", payload |-> PAbsent]
GarbageBody == [k |-> "garbage", type |-> "", next |-> "", payload |-> PAbsent]
Envelope(t, n, p) == [k |-> "env", type |-> t, next |-> n, payload |-> p]

Response(st, b) == [terr |-> FALSE, status |-> st, body |-> b]
TransportFailure == [terr |-> TRUE, status |-> 0, body |-> EmptyBody]

\* A field of a decoded JSON object; a missing key leaves Go's zero value.
Field(o, f, zero) == IF f \in DOMAIN o THEN o[f] ELSE zero

\* json.Unmarshal(payload, &slice): a nil RawMessage or a non-list is an
\* error; null leaves a nil slice.
UnmarshalList(p) ==
    CASE p.k = "list" -> [err |-> NoErr, items |-> p.items]
      [] p.k = "null" -> [err |-> NoErr, items |-> <<>>]
      [] OTHER -> [err |-> DecodeErr, items |-> <<>>]

(***************************************************************************)
(* The envelope codec.                                                     *)
(***************************************************************************)
DoOk(n, p) == [kind |-> "ok", next |-> n, payload |-> p, err |-> NoErr]
DoFail(e) == [kind |-> "err", next |-> "", payload |-> PAbsent, err |-> e]
DoPanic == [kind |-> "panic", next |-> "", payload |-> PAbsent, err |-> NoErr]

doError(obj) ==
    LET d == UnmarshalList(obj.payload) IN
    IF d.err # NoErr THEN DoFail(d.err)
    ELSE IF Len(d.items) = 0 THEN DoPanic
    ELSE DoFail(ErrorsNew(Field(d.items[1], "message", "")))

\* Variant of do that takes a status outside 2xx for a failure.
doStatusChecked(req, resp) ==
    IF resp.terr THEN DoFail(TransportErr)
    ELSE IF resp.status < 200 \/ resp.status >= 300
    THEN DoFail(Malformed(req, resp.body))
    ELSE IF resp.body.k = "empty" THEN DoOk("", PAbsent)
    ELSE IF resp.body.k # "env" THEN DoFail(Malformed(req, resp.body))
    ELSE IF resp.body.type = "error" THEN doError(resp.body)
    ELSE DoOk(resp.body.next, resp.body.payload)
do(req, resp) ==
    IF resp.terr THEN DoFail(TransportErr)
    ELSE IF resp.body.k = "empty" /\ resp.status >= 200 /\ resp.status < 300
    THEN DoOk("", PAbsent)
    ELSE IF resp.body.k # "env" THEN DoFail(Malformed(req, resp.body))
    ELSE IF resp.body.type = "error" THEN doError(resp.body)
    ELSE DoOk(resp.body.next, resp.body.payload)

\* A failed or panicking do() as the result of the operation that called it.
Propagate(d) == IF d.kind = "panic" THEN Panic ELSE Fail(d.err)

(***************************************************************************)
(* Requests.  The path is {url}/{res}/{id}/{sub} or {url}/{res}/{seg}; id  *)
(* 0, sub "" and seg <<>> stand for a missing path element.  target is the *)
(* request URL: the path and the query.                                    *)
(***************************************************************************)
NoBody == [k |-> "none"]
NoQuery == <<>>
RequestTo(c, m, res, id, sub, seg, query, body) ==
    [method |-> m, url |-> c.url, res |-> res, id |-> id, sub |-> sub,
     seg |-> seg, query |-> query, body |-> body,
     target |-> <<c.url, res, id, sub, seg, query>>,
     user |-> c.user, pass |-> c.pass]
Request(c, m, res, id, sub, seg, body) ==
    RequestTo(c, m, res, id, sub, seg, NoQuery, body)

\* base64.URLEncoding.EncodeToString: 3 bytes -> 4 sextets, '=' padding.
\* Sextets are kept as numbers 0..63, the padding character as Pad.
Pad == 64
RECURSIVE Base64Encode(_)
Base64Encode(b) ==
    IF Len(b) = 0 THEN <<>>
    ELSE IF Len(b) = 1
    THEN <<b[1] \div 4, (b[1] % 4) * 16, Pad, Pad>>
    ELSE IF Len(b) = 2
    THEN <<b[1] \div 4, (b[1] % 4) * 16 + (b[2] \div 16), (b[2] % 16) * 4, Pad>>
    ELSE <<b[1] \div 4, (b[1] % 4) * 16 + (b[2] \div 16),
           (b[2] % 16) * 4 + (b[3] \div 64), b[3] % 64>>
         \o Base64Encode(SubSeq(b, 4, Len(b)))

(***************************************************************************)
(* Decoding of payload elements into the client's types.                   *)
(***************************************************************************)
ToAccount(o) == [id |-> Field(o, "id", 0), balance |-> Field(o, "balance", 0)]
ToTransaction(o) ==
    [id |-> Field(o, "id", 0), type |-> Field(o, "type", ""),
     fromAccountID |-> Field(o, "fromAccountID", 0),
     toAccountID |-> Field(o, "toAccountID", 0),
     fromAccountBalance |-> Field(o, "fromAccountBalance", 0),
     toAccountBalance |-> Field(o, "toAccountBalance", 0),
     value |-> Field(o, "value", 0)]
ToHook(o) == [url |-> Field(o, "url", <<>>)]
MapSeq(F(_), s) == [i \in 1..Len(s) |-> F(s[i])]

accountsFromPayload(p) ==
    LET d == UnmarshalList(p) IN
    IF d.err # NoErr THEN Fail(d.err) ELSE Ok(MapSeq(ToAccount, d.items))

\* Variant of accountFromPayload that takes the first account of several.
accountFromPayloadFirst(p) ==
    LET r == accountsFromPayload(p) IN
    IF r.kind # "ok" THEN r
    ELSE IF Len(r.val) = 0 THEN Fail(ErrorsNew("expected one account"))
    ELSE Ok(r.val[1])
accountFromPayload(p) ==
    LET r == accountsFromPayload(p) IN
    IF r.kind # "ok" THEN r
    ELSE IF Len(r.val) # 1 THEN Fail(ErrorsNew("expected one account"))
    ELSE Ok(r.val[1])

(***************************************************************************)
(* Query options.  A value is a string of bytes.  u.RawQuery is the        *)
(* encoded query: the sequence of <<key, escaped value>> pairs, which      *)
(* url.Values.Encode writes sorted by key.  url.ParseQuery decodes it into *)
(* url.Values, the values of each key in order.                            *)
(***************************************************************************)
QueryKeys == <<"limit", "next", "status">>

Unreserved(b) ==
    \/ b \in 48..57 \/ b \in 65..90 \/ b \in 97..122
    \/ b \in {45, 46, 95, 126}
HexDigit(d) == IF d < 10 THEN 48 + d ELSE 55 + d
HexValue(h) == IF h <= 57 THEN h - 48 ELSE h - 55
RECURSIVE QueryEscape(_)
QueryEscape(v) ==
    IF Len(v) = 0 THEN <<>>
    ELSE (IF Unreserved(v[1]) THEN <<v[1]>>
          ELSE IF v[1] = 32 THEN <<43>>
          ELSE <<37, HexDigit(v[1] \div 16), HexDigit(v[1] % 16)>>)
         \o QueryEscape(Tail(v))
RECURSIVE QueryUnescape(_)
QueryUnescape(e) ==
    IF Len(e) = 0 THEN <<>>
    ELSE IF e[1] = 37 /\ Len(e) >= 3
    THEN <<HexValue(e[2]) * 16 + HexValue(e[3])>>
         \o QueryUnescape(SubSeq(e, 4, Len(e)))
    ELSE <<IF e[1] = 43 THEN 32 ELSE e[1]>> \o QueryUnescape(Tail(e))

\* url.ParseQuery: the values of each key, in the order they appear.
ParseQuery(q) ==
    [k \in {QueryKeys[i] : i \in 1..Len(QueryKeys)} |->
        LET OfKey(pair) == pair[1] = k
            pairs == SelectSeq(q, OfKey)
        IN [i \in 1..Len(pairs) |-> QueryUnescape(pairs[i][2])]]
\* url.Values.Encode: key=value pairs sorted by key, values escaped.
RECURSIVE EncodeFrom(_, _)
EncodeFrom(v, i) ==
    IF i > Len(QueryKeys) THEN <<>>
    ELSE LET k == QueryKeys[i] IN
         [j \in 1..Len(v[k]) |-> <<k, QueryEscape(v[k][j])>>]
         \o EncodeFrom(v, i + 1)
Encode(v) == EncodeFrom(v, 1)

\* Variant of SetValue that adds the value to those of key (v.Add).
AddValue(v, key, value) == [v EXCEPT ![key] = Append(@, value)]
\* v.Set(key, value) replaces the values of key.
SetValue(v, key, value) == [v EXCEPT ![key] = <<value>>]
setQueryValue(q, key, value) == Encode(SetValue(ParseQuery(q), key, value))

\* strconv.Itoa
RECURSIVE Itoa(_)
Itoa(n) ==
    IF n < 0 THEN <<45>> \o Itoa(-n)
    ELSE IF n < 10 THEN <<48 + n>>
    ELSE Itoa(n \div 10) \o <<48 + (n % 10)>>

\* An option is the key and the value its closure passes to setQueryValue.
Limit(limit) == [key |-> "limit", value |-> Itoa(limit)]
NextOption(next) == [key |-> "next", value |-> next]
Pending == [key |-> "status", value |-> <<112, 101, 110, 100, 105, 110, 103>>]

\* for _, op := range options { op(url) }, from a URL without a query.
RECURSIVE ApplyFrom(_, _)
ApplyFrom(q, options) ==
    IF Len(options) = 0 THEN q
    ELSE ApplyFrom(setQueryValue(q, options[1].key, options[1].value),
                   Tail(options))
ApplyOptions(options) == ApplyFrom(NoQuery, options)

(***************************************************************************)
(* Resource operations: the request each one sends and the result it       *)
(* returns for a response.                                                 *)
(***************************************************************************)
CreateAccountReq(c) == Request(c, "POST", "accounts", 0, "", <<>>, NoBody)
CreateAccountRes(req, resp) ==
    LET d == do(req, resp) IN
    IF d.kind # "ok" THEN Propagate(d) ELSE accountFromPayload(d.payload)

\* Variant of AccountReq that leaves the id out of the path.
AccountReqNoID(c, id) == Request(c, "GET", "accounts", 0, "", <<>>, NoBody)
AccountReq(c, id) == Request(c, "GET", "accounts", id, "", <<>>, NoBody)
AccountRes(req, resp) ==
    LET d == do(req, resp) IN
    IF d.kind # "ok" THEN Propagate(d) ELSE accountFromPayload(d.payload)

AccountsReq(c, options) ==
    RequestTo(c, "GET", "accounts", 0, "", <<>>, ApplyOptions(options), NoBody)
AccountsRes(req, resp) ==
    LET d == do(req, resp) IN
    IF d.kind # "ok" THEN Propagate(d)
    ELSE LET r == accountsFromPayload(d.payload) IN
         IF r.kind # "ok" THEN r ELSE Ok([next |-> d.next, accs |-> r.val])

CreateAddressReq(c, accountID) ==
    Request(c, "POST", "accounts", accountID, "addresses", <<>>, NoBody)
CreateAddressRes(req, resp) ==
    LET d == do(req, resp) IN
    IF d.kind # "ok" THEN Propagate(d)
    ELSE LET u == UnmarshalList(d.payload) IN
         IF u.err # NoErr THEN Fail(u.err)
         ELSE IF Len(u.items) # 1 THEN Fail(ErrorsNew("expected one address"))
         ELSE Ok(Field(u.items[1], "address", <<>>))

AccountTransactionsReq(c, accountID, options) ==
    RequestTo(c, "GET", "accounts", accountID, "transactions", <<>>,
              ApplyOptions(options), NoBody)
AccountTransactionsRes(req, resp) ==
    LET d == do(req, resp) IN
    IF d.kind # "ok" THEN Propagate(d)
    ELSE LET u == UnmarshalList(d.payload) IN
         IF u.err # NoErr THEN Fail(u.err)
         ELSE Ok([next |-> d.next, txns |-> MapSeq(ToTransaction, u.items)])

(***************************************************************************)
(* Transaction lifecycle.                                                  *)
(***************************************************************************)
CreateTransactionIDsReq(c, n) ==
    Request(c, "POST", "transactions", 0, "", <<>>, [n |-> n])
\* txIDs := make([]int64, n); for i, tx := range txns { txIDs[i] = tx.ID }
\* An index i >= n is out of range.
\* Variant of CopyTxIDs that copies the first stub's ID into every slot.
CopyTxIDsFirst(n, stubs) ==
    IF Len(stubs) > n THEN Panic
    ELSE Ok([i \in 1..n |-> IF Len(stubs) > 0 THEN stubs[1].id ELSE 0])
CopyTxIDs(n, stubs) ==
    IF Len(stubs) > n THEN Panic
    ELSE Ok([i \in 1..n |-> IF i <= Len(stubs) THEN stubs[i].id ELSE 0])
CreateTransactionIDsRes(req, n, resp) ==
    LET d == do(req, resp) IN
    IF d.kind # "ok" THEN Propagate(d)
    ELSE LET u == UnmarshalList(d.payload) IN
         IF u.err # NoErr THEN Fail(u.err)
         ELSE CopyTxIDs(n, MapSeq(ToTransaction, u.items))

TransactionReq(c, id) == Request(c, "GET", "transactions", id, "", <<>>, NoBody)
\* return txns[0], nil
TransactionRes(req, resp) ==
    LET d == do(req, resp) IN
    IF d.kind # "ok" THEN Propagate(d)
    ELSE LET u == UnmarshalList(d.payload) IN
         IF u.err # NoErr THEN Fail(u.err)
         ELSE IF Len(u.items) = 0 THEN Panic
         ELSE Ok(ToTransaction(u.items[1]))

\* Variants of TransferBody: one that resubmits under a fresh ID (an unused
\* issued one, else the next the service would issue) once the caller's ID
\* is consumed, one that swaps sender and recipient.
TransferBodyFreshID(txID, fromAccountID, toAccountID, value) ==
    [id |-> IF txID \notin consumed THEN txID
            ELSE IF issued \ consumed # {}
            THEN CHOOSE t \in issued \ consumed : TRUE ELSE nextID,
     fromAccountID |-> fromAccountID, toAccountID |-> toAccountID,
     value |-> value]
TransferBodySwapped(txID, fromAccountID, toAccountID, value) ==
    [id |-> txID, fromAccountID |-> toAccountID,
     toAccountID |-> fromAccountID, value |-> value]
TransferBody(txID, fromAccountID, toAccountID, value) ==
    [id |-> txID, fromAccountID |-> fromAccountID,
     toAccountID |-> toAccountID, value |-> value]
TransferReq(c, txID, fromAccountID, toAccountID, value) ==
    Request(c, "PUT", "transactions", 0, "", <<>>,
            TransferBody(txID, fromAccountID, toAccountID, value))
\* switch err.Error() { case "insufficient funds": return ErrInsufficientFunds }
\* Variant of TransferErr that passes every error through.
TransferErrUnmapped(err) == err
TransferErr(err) ==
    IF err.msg = "insufficient funds" THEN ErrInsufficientFunds ELSE err
TransferRes(req, resp) ==
    LET d == do(req, resp) IN
    IF d.kind = "panic" THEN Panic
    ELSE IF d.kind = "err" THEN Fail(TransferErr(d.err))
    ELSE Ok(<<>>)

DebitBody(txID, fromAccountID, toAddress, value) ==
    [id |-> txID, fromAccountID |-> fromAccountID,
     toAddress |-> toAddress, value |-> value]
DebitReq(c, txID, fromAccountID, toAddress, value) ==
    Request(c, "PUT", "transactions", 0, "", <<>>,
            DebitBody(txID, fromAccountID, toAddress, value))
\* if _, _, err := c.do(req); err != nil { return err }
DebitErr(err) == err
DebitRes(req, resp) ==
    LET d == do(req, resp) IN
    IF d.kind = "panic" THEN Panic
    ELSE IF d.kind = "err" THEN Fail(DebitErr(d.err))
    ELSE Ok(<<>>)

ToFee(o) == [feePerByte |-> Field(o, "feePerByte", 0),
             blockHeight |-> Field(o, "blockHeight", 0)]
FeesReq(c) == Request(c, "GET", "fees", 0, "", <<>>, NoBody)
FeesRes(req, resp) ==
    LET d == do(req, resp) IN
    IF d.kind # "ok" THEN Propagate(d)
    ELSE LET u == UnmarshalList(d.payload) IN
         IF u.err # NoErr THEN Fail(u.err) ELSE Ok(MapSeq(ToFee, u.items))

(***************************************************************************)
(* Hooks.                                                                  *)
(***************************************************************************)
CreateHookReq(c, u) ==
    Request(c, "POST", "hooks", 0, "", <<>>, [url |-> u])
\* switch err.Error() { case "hook exists": return ErrHookExists }
CreateHookErr(err) == IF err.msg = "hook exists" THEN ErrHookExists ELSE err
CreateHookRes(req, resp) ==
    LET d == do(req, resp) IN
    IF d.kind = "panic" THEN Panic
    ELSE IF d.kind = "err" THEN Fail(CreateHookErr(d.err))
    ELSE Ok(<<>>)

HooksReq(c) == Request(c, "GET", "hooks", 0, "", <<>>, NoBody)
HooksRes(req, resp) ==
    LET d == do(req, resp) IN
    IF d.kind # "ok" THEN Propagate(d)
    ELSE LET u == UnmarshalList(d.payload) IN
         IF u.err # NoErr THEN Fail(u.err)
         ELSE Ok(MapSeq(ToHook, u.items))

\* Variant of DeleteHookSeg that puts the URL in the path unencoded.
DeleteHookSegRaw(u) == u
DeleteHookSeg(u) == Base64Encode(u)
DeleteHookReq(c, u) ==
    Request(c, "DELETE", "hooks", 0, "", DeleteHookSeg(u), NoBody)
DeleteHookRes(req, resp) ==
    LET d == do(req, resp) IN
    IF d.kind # "ok" THEN Propagate(d) ELSE Ok(<<>>)

(***************************************************************************)
(* The webhook parser.  An inbound request is the value of its             *)
(* Content-Type header ("" when the header is missing) and its body.       *)
(* bodyRead tells whether Unmarshal read from r.Body.                      *)
(***************************************************************************)
JSONMediaType == "application/json"
HookRequest(h, b) == [contentType |-> h, body |-> b]
ContentTypeErr == ErrorsNew("incorrect content type")
\* io.EOF, which Decode returns for an empty body.
EOFErr == [id |-> "io.EOF", msg |-> "EOF"]
\* fmt.Errorf("unknown object type %v", obj.Type)
UnknownTypeErr(t) == [id |-> "new", msg |-> "unknown object type", tag |-> t]

\* TransactionEvent: an embedded Transaction and a status.
ToTransactionEvent(o) ==
    [id |-> Field(o, "id", 0), type |-> Field(o, "type", ""),
     fromAccountID |-> Field(o, "fromAccountID", 0),
     toAccountID |-> Field(o, "toAccountID", 0),
     fromAccountBalance |-> Field(o, "fromAccountBalance", 0),
     toAccountBalance |-> Field(o, "toAccountBalance", 0),
     value |-> Field(o, "value", 0), status |-> Field(o, "status", "")]

\* r.Header.Get("Content-Type") != "application/json"
\* Variant of ContentTypeOK that lets a request without the header pass.
ContentTypeOKOrMissing(h) == h = JSONMediaType \/ h = ""
ContentTypeOK(h) == h = JSONMediaType

\* switch obj.Type { case "transactions": ... default: ... }
\* Variant of Dispatch that decodes the payload whatever the tag is, unless
\* it is "error".
DispatchNotError(obj) ==
    IF obj.type # "error"
    THEN LET u == UnmarshalList(obj.payload) IN
         IF u.err # NoErr THEN Fail(u.err)
         ELSE Ok(MapSeq(ToTransactionEvent, u.items))
    ELSE Fail(UnknownTypeErr(obj.type))
Dispatch(obj) ==
    IF obj.type = "transactions"
    THEN LET u == UnmarshalList(obj.payload) IN
         IF u.err # NoErr THEN Fail(u.err)
         ELSE Ok(MapSeq(ToTransactionEvent, u.items))
    ELSE Fail(UnknownTypeErr(obj.type))

Unmarshal(r) ==
    IF ~ContentTypeOK(r.contentType)
    THEN [res |-> Fail(ContentTypeErr), bodyRead |-> FALSE]
    ELSE IF r.body.k = "empty" THEN [res |-> Fail(EOFErr), bodyRead |-> TRUE]
    ELSE IF r.body.k # "env" THEN [res |-> Fail(DecodeErr), bodyRead |-> TRUE]
    ELSE [res |-> Dispatch(r.body), bodyRead |-> TRUE]

\* New(c, url, user, pass)
New(url, user, pass) == [url |-> url, user |-> user, pass |-> pass]

\* Variant of Receiver in which a method keeps the URL it built in c.url.
ReceiverKeepsURL(c) == [c EXCEPT !.url = "urlStr"]
\* The receiver of a method after the call: no method assigns a field of c.
Receiver(c) == c

(***************************************************************************)
(* The remote service (not part of the repository): a ledger of accounts,  *)
(* addresses, transaction IDs and transactions, and a set of hooks, behind *)
(* the endpoints of spec.md section 6.  Serve maps a service state and a   *)
(* request to the next service state and the response.                     *)
(***************************************************************************)
Reply(S, t, items) ==
    [s |-> S, resp |-> Response(200, Envelope(t, "", PList(items)))]
ReplyEmpty(S) == [s |-> S, resp |-> Response(200, EmptyBody)]
ReplyError(S, msg) ==
    [s |-> S,
     resp |-> Response(400, Envelope("error", "", PList(<<[message |-> msg]>>)))]

\* The address bound to an account.
AddressOf(id) == <<65, id>>
Involves(tx, id) == tx.fromAccountID = id \/ tx.toAccountID = id

ServeAccounts(S, req) ==
    IF req.method = "POST" /\ req.id = 0
    THEN LET id == Len(S.accounts) + 1 IN
         Reply([S EXCEPT !.accounts = Append(@, 0)], "accounts",
               <<[id |-> id, balance |-> 0]>>)
    ELSE IF req.id = 0
    THEN Reply(S, "accounts",
               [i \in 1..Len(S.accounts) |-> [id |-> i, balance |-> S.accounts[i]]])
    ELSE IF req.id \notin 1..Len(S.accounts)
    THEN ReplyError(S, "account not found")
    ELSE IF req.sub = "addresses"
    THEN Reply(S, "addresses", <<[address |-> AddressOf(req.id)]>>)
    ELSE IF req.sub = "transactions"
    THEN LET Mine(tx) == Involves(tx, req.id) IN
         Reply(S, "transactions", SelectSeq(S.txns, Mine))
    ELSE Reply(S, "accounts", <<[id |-> req.id, balance |-> S.accounts[req.id]]>>)

\* A settled transfer or debit: the ID is consumed, the balances move and
\* the transaction is appended to the ledger.
Settle(S, b, type, to) ==
    LET fromBal == S.accounts[b.fromAccountID] - b.value
        acc1 == [S.accounts EXCEPT ![b.fromAccountID] = fromBal]
        acc2 == IF to = 0 THEN acc1 ELSE [acc1 EXCEPT ![to] = @ + b.value]
        tx == [id |-> b.id, type |-> type, fromAccountID |-> b.fromAccountID,
               toAccountID |-> to, fromAccountBalance |-> acc2[b.fromAccountID],
               toAccountBalance |-> IF to = 0 THEN 0 ELSE acc2[to],
               value |-> b.value]
    IN [S EXCEPT !.accounts = acc2, !.consumed = @ \cup {b.id},
                 !.txns = Append(@, tx)]

ServePutTransaction(S, b) ==
    LET debit == "toAddress" \in DOMAIN b
        to == IF debit THEN 0 ELSE b.toAccountID
    IN
    IF b.fromAccountID \notin 1..Len(S.accounts)
       \/ (~debit /\ to \notin 1..Len(S.accounts))
    THEN ReplyError(S, "account not found")
    ELSE IF b.value > S.accounts[b.fromAccountID]
    THEN ReplyError(S, "insufficient funds")
    ELSE IF b.id \in S.consumed
    THEN ReplyError(S, "TxID used")
    ELSE IF b.id \notin S.issued
    THEN ReplyError(S, "transaction ID not found")
    ELSE ReplyEmpty(Settle(S, b, IF debit THEN "debit" ELSE "transfer", to))

ServeTransactions(S, req) ==
    IF req.method = "POST"
    THEN LET ids == [i \in 1..req.body.n |-> S.nextID + i - 1] IN
         Reply([S EXCEPT !.nextID = @ + req.body.n,
                         !.issued = @ \cup {ids[i] : i \in 1..req.body.n}],
               "transactions", [i \in 1..req.body.n |-> [id |-> ids[i]]])
    ELSE IF req.method = "PUT"
    THEN ServePutTransaction(S, req.body)
    ELSE LET Hit(tx) == tx.id = req.id IN
         IF SelectSeq(S.txns, Hit) = <<>>
         THEN ReplyError(S, "transaction not found")
         ELSE Reply(S, "transactions", SelectSeq(S.txns, Hit))

\* Inverse of the URL-safe, padded base64 encoding of the path segment.
RECURSIVE Base64Decode(_)
Base64Decode(e) ==
    IF Len(e) < 4 THEN <<>>
    ELSE LET b1 == e[1] * 4 + (e[2] \div 16)
             b2 == (e[2] % 16) * 16 + (e[3] \div 4)
             b3 == (e[3] % 4) * 64 + e[4]
         IN IF e[3] = Pad THEN <<b1>>
            ELSE IF e[4] = Pad THEN <<b1, b2>>
            ELSE <<b1, b2, b3>> \o Base64Decode(SubSeq(e, 5, Len(e)))

ServeHooks(S, req) ==
    IF req.method = "POST"
    THEN IF \E i \in 1..Len(S.hooks) : S.hooks[i] = req.body.url
         THEN ReplyError(S, "hook exists")
         ELSE ReplyEmpty([S EXCEPT !.hooks = Append(@, req.body.url)])
    ELSE IF req.method = "DELETE"
    THEN LET u == Base64Decode(req.seg)
             Keep(h) == h # u
         IN IF \E i \in 1..Len(S.hooks) : S.hooks[i] = u
            THEN ReplyEmpty([S EXCEPT !.hooks = SelectSeq(@, Keep)])
            ELSE ReplyError(S, "hook not found")
    ELSE Reply(S, "hooks", [i \in 1..Len(S.hooks) |-> [url |-> S.hooks[i]]])

Serve(S, req) ==
    CASE req.res = "accounts" -> ServeAccounts(S, req)
      [] req.res = "transactions" -> ServeTransactions(S, req)
      [] req.res = "hooks" -> ServeHooks(S, req)
      [] OTHER -> ReplyError(S, "not found")

\* One HTTP round trip.  The transport may fail before the request reaches
\* the service or after the service has handled it.
Faults == {"none", "request lost", "response lost"}
\* Variant of RoundTrip that sends the request again when the transport
\* failed; the second attempt is delivered.
RoundTripRetry(S, req, fault) ==
    LET S1 == IF fault = "response lost" THEN Serve(S, req).s ELSE S
        rt == Serve(S1, req)
    IN [s |-> rt.s, resp |-> rt.resp, sent |-> IF fault = "none" THEN 1 ELSE 2]
\* c.client.Do(req) is called once; sent counts the requests of the call.
RoundTrip(S, req, fault) ==
    LET rt == Serve(S, req) IN
    IF fault = "request lost" THEN [s |-> S, resp |-> TransportFailure, sent |-> 1]
    ELSE IF fault = "response lost"
    THEN [s |-> rt.s, resp |-> TransportFailure, sent |-> 1]
    ELSE [s |-> rt.s, resp |-> rt.resp, sent |-> 1]

Srv == [accounts |-> accounts, nextID |-> nextID,
        issued |-> issued, consumed |-> consumed, txns |-> txns,
        hooks |-> hooks]
Pre == [accounts |-> accounts, txns |-> txns, hooks |-> hooks,
        returned |-> returned]

AccountIDs == 1..MaxAccounts
Callers == 1..MaxCallers
TxIDs == 1..MaxTxIDs
RECURSIVE SeqsUpTo(_, _)
SeqsUpTo(S, n) ==
    IF n = 0 THEN {<<>>}
    ELSE LET shorter == SeqsUpTo(S, n - 1) IN
         shorter \cup {Append(q, x) : q \in shorter, x \in S}
HookURLs == SeqsUpTo(URLBytes, MaxURLLen) \ {<<>>}

NoCall == [op |-> "none", args |-> <<>>, req |-> NoBody,
           resp |-> TransportFailure, codec |-> DoOk("", PAbsent),
           res |-> Ok(<<>>), fault |-> "none", sent |-> 0,
           pre |-> [accounts |-> <<>>, txns |-> <<>>, hooks |-> <<>>,
                    returned |-> {}]]

\* A caller that has no call in progress.
NotStarted == [stage |-> "idle", op |-> "none", args |-> <<>>, req |-> NoBody,
               resp |-> TransportFailure, res |-> Ok(<<>>)]

MainNetURL == "https://api.rtwire.com/v1/mainnet"
\* The client as New returns it.
Constructed == New(MainNetURL, "user", "pass")

Init ==
    /\ cfg = Constructed
    /\ accounts = <<>>
    /\ nextID = 1
    /\ issued = {}
    /\ consumed = {}
    /\ txns = <<>>
    /\ hooks = <<>>
    /\ returned = {}
    /\ moved = [t \in TxIDs |-> 0]
    /\ call = NoCall
    /\ inflight = [k \in Callers |-> NotStarted]

\* No call is in progress: the result of the last one has been taken.
Idle == call.op = "none"

\* The service state after a round trip, and the record of the call.
Finish(op, args, req, fault, rt, res) ==
    /\ accounts' = rt.s.accounts
    /\ nextID' = rt.s.nextID
    /\ issued' = rt.s.issued
    /\ consumed' = rt.s.consumed
    /\ txns' = rt.s.txns
    /\ hooks' = rt.s.hooks
    /\ call' = [op |-> op, args |-> args, req |-> req, resp |-> rt.resp,
                codec |-> do(req, rt.resp), res |-> res, fault |-> fault,
                sent |-> rt.sent, pre |-> Pre]
    /\ cfg' = Receiver(cfg)
    /\ inflight' = inflight

(***************************************************************************)
(* The operations against the service.                                     *)
(***************************************************************************)
CreateAccount ==
    /\ Idle
    /\ \E fault \in Faults :
        LET req == CreateAccountReq(cfg)
            rt == RoundTrip(Srv, req, fault)
        IN /\ Len(accounts) < MaxAccounts
           /\ Finish("CreateAccount", <<>>, req, fault, rt, CreateAccountRes(req, rt.resp))
           /\ UNCHANGED <<returned, moved>>

Account ==
    /\ Idle
    /\ \E id \in AccountIDs, fault \in Faults :
        LET req == AccountReq(cfg, id)
            rt == RoundTrip(Srv, req, fault)
        IN /\ Finish("Account", [id |-> id], req, fault, rt, AccountRes(req, rt.resp))
           /\ UNCHANGED <<returned, moved>>

Accounts ==
    /\ Idle
    /\ \E fault \in Faults :
        LET req == AccountsReq(cfg, <<>>)
            rt == RoundTrip(Srv, req, fault)
        IN /\ Finish("Accounts", [options |-> <<>>], req, fault, rt,
                     AccountsRes(req, rt.resp))
           /\ UNCHANGED <<returned, moved>>

CreateAddress ==
    /\ Idle
    /\ \E id \in AccountIDs, fault \in Faults :
        LET req == CreateAddressReq(cfg, id)
            rt == RoundTrip(Srv, req, fault)
        IN /\ Finish("CreateAddress", [id |-> id], req, fault, rt,
                     CreateAddressRes(req, rt.resp))
           /\ UNCHANGED <<returned, moved>>

\* Funds arriving from outside at the address of an account: the account is
\* credited and a credit transaction is recorded.  Not a client operation.
Credit(cap) ==
    /\ Idle
    /\ \E id \in 1..Len(accounts), v \in Values :
        LET bal == accounts[id] + v
            tx == [id |-> nextID, type |-> "credit", fromAccountID |-> 0,
                   toAccountID |-> id, fromAccountBalance |-> 0,
                   toAccountBalance |-> bal, value |-> v]
        IN /\ bal <= MaxBalance
           /\ nextID <= cap
           /\ accounts' = [accounts EXCEPT ![id] = bal]
           /\ txns' = Append(txns, tx)
           /\ nextID' = nextID + 1
           /\ call' = [NoCall EXCEPT !.op = "Credit",
                                     !.args = [address |-> AddressOf(id), value |-> v],
                                     !.pre = Pre]
           /\ UNCHANGED <<cfg, issued, consumed, hooks, returned, moved, inflight>>

AccountTransactions ==
    /\ Idle
    /\ \E id \in AccountIDs, fault \in Faults :
        LET req == AccountTransactionsReq(cfg, id, <<>>)
            rt == RoundTrip(Srv, req, fault)
        IN /\ Finish("AccountTransactions", [id |-> id, options |-> <<>>], req, fault, rt,
                     AccountTransactionsRes(req, rt.resp))
           /\ UNCHANGED <<returned, moved>>

\* cap bounds the transaction IDs the service assigns in a behaviour.
CreateTransactionIDs(cap) ==
    /\ Idle
    /\ \E n \in 1..MaxN, fault \in Faults :
        LET req == CreateTransactionIDsReq(cfg, n)
            rt == RoundTrip(Srv, req, fault)
            res == CreateTransactionIDsRes(req, n, rt.resp)
        IN /\ nextID + n - 1 <= cap
           /\ Finish("CreateTransactionIDs", [n |-> n], req, fault, rt, res)
           /\ UNCHANGED moved

Transaction ==
    /\ Idle
    /\ \E id \in TxIDs, fault \in Faults :
        LET req == TransactionReq(cfg, id)
            rt == RoundTrip(Srv, req, fault)
        IN /\ Finish("Transaction", [id |-> id], req, fault, rt,
                     TransactionRes(req, rt.resp))
           /\ UNCHANGED <<returned, moved>>

\* moved counts, per caller-supplied txID, the settlements its calls caused.
Settled(rt) == Len(rt.s.txns) - Len(txns)

Transfer ==
    /\ Idle
    /\ \E txID \in TxIDs, from \in AccountIDs, to \in AccountIDs, v \in Values,
       fault \in Faults :
        LET req == TransferReq(cfg, txID, from, to, v)
            rt == RoundTrip(Srv, req, fault)
        IN /\ Finish("Transfer",
                     [txID |-> txID, from |-> from, to |-> to, value |-> v],
                     req, fault, rt, TransferRes(req, rt.resp))
           /\ moved' = [moved EXCEPT ![txID] = @ + Settled(rt)]
           /\ UNCHANGED returned

Debit ==
    /\ Idle
    /\ \E txID \in TxIDs, from \in AccountIDs, to \in ExtAddresses, v \in Values,
       fault \in Faults :
        LET req == DebitReq(cfg, txID, from, to, v)
            rt == RoundTrip(Srv, req, fault)
        IN /\ Finish("Debit",
                     [txID |-> txID, from |-> from, to |-> to, value |-> v],
                     req, fault, rt, DebitRes(req, rt.resp))
           /\ moved' = [moved EXCEPT ![txID] = @ + Settled(rt)]
           /\ UNCHANGED returned

\* The caller takes the result of the last call; the next call can start.
Return ==
    /\ ~Idle
    /\ call' = NoCall
    /\ UNCHANGED <<cfg, accounts, nextID, issued, consumed, txns,
                   hooks, returned, moved, inflight>>

Next ==
    \/ CreateAccount
    \/ Account
    \/ Accounts
    \/ CreateAddress
    \/ Credit(MaxTxIDs)
    \/ AccountTransactions
    \/ CreateTransactionIDs(MaxTxIDs) /\ UNCHANGED returned
    \/ Transaction
    \/ Transfer
    \/ Debit
    \/ Return

Spec == Init /\ [][Next]_vars

(***************************************************************************)
(* Issuance of transaction IDs, to callers by CreateTransactionIDs and to  *)
(* credits, with the history of the IDs callers were given.                *)
(***************************************************************************)
ReturnedBy(c) ==
    IF c.op = "CreateTransactionIDs" /\ c.res.kind = "ok"
    THEN {c.res.val[i] : i \in 1..Len(c.res.val)} ELSE {}

IssueNext ==
    \/ CreateAccount
    \/ Credit(MaxIssued)
    \/ CreateTransactionIDs(MaxIssued) /\ returned' = returned \cup ReturnedBy(call')
    \/ Return

IssueSpec == Init /\ [][IssueNext]_vars

(***************************************************************************)
(* The hook operations against the service.                                *)
(***************************************************************************)
CreateHook ==
    /\ Idle
    /\ \E u \in HookURLs, fault \in Faults :
        LET req == CreateHookReq(cfg, u)
            rt == RoundTrip(Srv, req, fault)
        IN /\ Len(hooks) < MaxHooks \/ \E i \in 1..Len(hooks) : hooks[i] = u
           /\ Finish("CreateHook", [url |-> u], req, fault, rt, CreateHookRes(req, rt.resp))
           /\ UNCHANGED <<returned, moved>>

Hooks ==
    /\ Idle
    /\ \E fault \in Faults :
        LET req == HooksReq(cfg)
            rt == RoundTrip(Srv, req, fault)
        IN /\ Finish("Hooks", <<>>, req, fault, rt, HooksRes(req, rt.resp))
           /\ UNCHANGED <<returned, moved>>

DeleteHook ==
    /\ Idle
    /\ \E u \in HookURLs, fault \in Faults :
        LET req == DeleteHookReq(cfg, u)
            rt == RoundTrip(Srv, req, fault)
        IN /\ Finish("DeleteHook", [url |-> u], req, fault, rt, DeleteHookRes(req, rt.resp))
           /\ UNCHANGED <<returned, moved>>

HookNext ==
    \/ CreateHook
    \/ Hooks
    \/ DeleteHook
    \/ Return

HookSpec == Init /\ [][HookNext]_vars

(***************************************************************************)
(* The operations against a peer that may answer anything: every response  *)
(* the wire can carry, whatever the request was.  Account 1, transaction 1 *)
(* and WireURL stand for the arguments.                                    *)
(***************************************************************************)
WireStatus == {199, 200, 299, 300}
WireTypes == {"error", "transactions", ""}
WireNexts == {"", "cursor"}
WireItems == {[message |-> "insufficient funds"], [message |-> "hook exists"],
              [message |-> "TxID used"], [id |-> 1, balance |-> 5], [id |-> 2],
              [address |-> <<65, 1>>]}
WirePayloads ==
    {PAbsent, PNull, PBad} \cup {PList(q) : q \in SeqsUpTo(WireItems, MaxItems)}
WireBodies ==
    {EmptyBody, GarbageBody}
    \cup {Envelope(t, n, p) : t \in WireTypes, n \in WireNexts, p \in WirePayloads}
WireResponses ==
    {TransportFailure} \cup {Response(st, b) : st \in WireStatus, b \in WireBodies}

\* The hook URL of the calls; the result of a call depends on its response
\* and, for CreateTransactionIDs, on n, not on its other arguments.
WireURL == <<104, 255>>

WireFinish(op, args, req, resp, res) ==
    /\ call' = [op |-> op, args |-> args, req |-> req, resp |-> resp,
                codec |-> do(req, resp), res |-> res, fault |-> "none",
                sent |-> 1, pre |-> Pre]
    /\ UNCHANGED <<cfg, accounts, nextID, issued, consumed, txns,
                   hooks, returned, moved, inflight>>

WireCreateAccount ==
    /\ Idle
    /\ \E resp \in WireResponses :
        LET req == CreateAccountReq(cfg) IN
        WireFinish("CreateAccount", <<>>, req, resp,
                   CreateAccountRes(req, resp))
WireAccount ==
    /\ Idle
    /\ \E resp \in WireResponses :
        LET req == AccountReq(cfg, 1) IN
        WireFinish("Account", [id |-> 1], req, resp,
                   AccountRes(req, resp))
WireAccounts ==
    /\ Idle
    /\ \E resp \in WireResponses :
        LET req == AccountsReq(cfg, <<>>) IN
        WireFinish("Accounts", [options |-> <<>>], req, resp,
                   AccountsRes(req, resp))
WireCreateAddress ==
    /\ Idle
    /\ \E resp \in WireResponses :
        LET req == CreateAddressReq(cfg, 1) IN
        WireFinish("CreateAddress", [id |-> 1], req, resp,
                   CreateAddressRes(req, resp))
WireAccountTransactions ==
    /\ Idle
    /\ \E resp \in WireResponses :
        LET req == AccountTransactionsReq(cfg, 1, <<>>) IN
        WireFinish("AccountTransactions", [id |-> 1, options |-> <<>>], req, resp,
                   AccountTransactionsRes(req, resp))
WireCreateTransactionIDs ==
    /\ Idle
    /\ \E n \in 1..MaxN, resp \in WireResponses :
        LET req == CreateTransactionIDsReq(cfg, n) IN
        WireFinish("CreateTransactionIDs", [n |-> n], req, resp,
                   CreateTransactionIDsRes(req, n, resp))
WireTransaction ==
    /\ Idle
    /\ \E resp \in WireResponses :
        LET req == TransactionReq(cfg, 1) IN
        WireFinish("Transaction", [id |-> 1], req, resp,
                   TransactionRes(req, resp))
WireTransfer ==
    /\ Idle
    /\ \E resp \in WireResponses :
        LET req == TransferReq(cfg, 1, 1, 2, 5) IN
        WireFinish("Transfer", [txID |-> 1, from |-> 1, to |-> 2, value |-> 5], req, resp,
                   TransferRes(req, resp))
WireDebit ==
    /\ Idle
    /\ \E to \in ExtAddresses, resp \in WireResponses :
        LET req == DebitReq(cfg, 1, 1, to, 5) IN
        WireFinish("Debit", [txID |-> 1, from |-> 1, to |-> to, value |-> 5], req, resp,
                   DebitRes(req, resp))
WireFees ==
    /\ Idle
    /\ \E resp \in WireResponses :
        LET req == FeesReq(cfg) IN
        WireFinish("Fees", <<>>, req, resp,
                   FeesRes(req, resp))
WireCreateHook ==
    /\ Idle
    /\ \E resp \in WireResponses :
        LET req == CreateHookReq(cfg, WireURL) IN
        WireFinish("CreateHook", [url |-> WireURL], req, resp,
                   CreateHookRes(req, resp))
WireHooks ==
    /\ Idle
    /\ \E resp \in WireResponses :
        LET req == HooksReq(cfg) IN
        WireFinish("Hooks", <<>>, req, resp,
                   HooksRes(req, resp))
WireDeleteHook ==
    /\ Idle
    /\ \E resp \in WireResponses :
        LET req == DeleteHookReq(cfg, WireURL) IN
        WireFinish("DeleteHook", [url |-> WireURL], req, resp,
                   DeleteHookRes(req, resp))

WireNext ==
    \/ WireCreateAccount
    \/ WireAccount
    \/ WireAccounts
    \/ WireCreateAddress
    \/ WireAccountTransactions
    \/ WireCreateTransactionIDs
    \/ WireTransaction
    \/ WireTransfer
    \/ WireDebit
    \/ WireFees
    \/ WireCreateHook
    \/ WireHooks
    \/ WireDeleteHook
    \/ Return

WireSpec == Init /\ [][WireNext]_vars

(***************************************************************************)
(* The list operations with query options.                                 *)
(***************************************************************************)
\* The cursor "a &" and the empty cursor.
Cursors == {<<97, 32, 38>>, <<>>}
Limits == {1, 10}
Options == {Limit(n) : n \in Limits} \cup {NextOption(x) : x \in Cursors}
           \cup {Pending}

QueryAccounts ==
    /\ Idle
    /\ \E options \in SeqsUpTo(Options, MaxOptions) :
        LET req == AccountsReq(cfg, options)
            rt == RoundTrip(Srv, req, "none")
        IN /\ Finish("Accounts", [options |-> options], req, "none", rt,
                     AccountsRes(req, rt.resp))
           /\ UNCHANGED <<returned, moved>>

QueryAccountTransactions ==
    /\ Idle
    /\ \E id \in AccountIDs, options \in SeqsUpTo(Options, MaxOptions) :
        LET req == AccountTransactionsReq(cfg, id, options)
            rt == RoundTrip(Srv, req, "none")
        IN /\ Finish("AccountTransactions", [id |-> id, options |-> options],
                     req, "none", rt, AccountTransactionsRes(req, rt.resp))
           /\ UNCHANGED <<returned, moved>>

QueryNext ==
    \/ QueryAccounts
    \/ QueryAccountTransactions
    \/ Return

QuerySpec == Init /\ [][QueryNext]_vars

(***************************************************************************)
(* Concurrent callers on one client.  A call is two steps: the caller      *)
(* builds its request from the client and its arguments and sends it; the  *)
(* round trip completes and the caller builds the result from the          *)
(* response.  Calls of different callers interleave in any order.          *)
(***************************************************************************)
RequestOf(c, op, args) ==
    CASE op = "CreateAccount" -> CreateAccountReq(c)
      [] op = "Account" -> AccountReq(c, args.id)
      [] op = "Accounts" -> AccountsReq(c, <<>>)
ResultOf(op, req, resp) ==
    CASE op = "CreateAccount" -> CreateAccountRes(req, resp)
      [] op = "Account" -> AccountRes(req, resp)
      [] op = "Accounts" -> AccountsRes(req, resp)

Begin(k, op, args) ==
    /\ inflight[k].stage = "idle"
    /\ inflight' = [inflight EXCEPT ![k] =
                       [stage |-> "sent", op |-> op, args |-> args,
                        req |-> RequestOf(cfg, op, args),
                        resp |-> TransportFailure, res |-> Ok(<<>>)]]
    /\ cfg' = Receiver(cfg)
    /\ UNCHANGED <<accounts, nextID, issued, consumed, txns, hooks,
                   returned, moved, call>>

\* The accounts created and those a call in flight may still create.
Creating == Cardinality({k \in Callers : /\ inflight[k].stage = "sent"
                                         /\ inflight[k].op = "CreateAccount"})
BeginCreateAccount(k) ==
    /\ Len(accounts) + Creating < MaxAccounts
    /\ Begin(k, "CreateAccount", <<>>)
BeginAccount(k) == \E id \in AccountIDs : Begin(k, "Account", [id |-> id])
BeginAccounts(k) == Begin(k, "Accounts", [options |-> <<>>])

Complete(k) ==
    /\ inflight[k].stage = "sent"
    /\ \E fault \in Faults :
        LET p == inflight[k]
            rt == RoundTrip(Srv, p.req, fault)
        IN /\ accounts' = rt.s.accounts
           /\ inflight' = [inflight EXCEPT ![k] =
                              [p EXCEPT !.stage = "done", !.resp = rt.resp,
                                        !.res = ResultOf(p.op, p.req, rt.resp)]]
           /\ cfg' = Receiver(cfg)
           /\ UNCHANGED <<nextID, issued, consumed, txns, hooks, returned,
                          moved, call>>

Take(k) ==
    /\ inflight[k].stage = "done"
    /\ inflight' = [inflight EXCEPT ![k] = NotStarted]
    /\ UNCHANGED <<cfg, accounts, nextID, issued, consumed, txns, hooks,
                   returned, moved, call>>

ConcNext ==
    \E k \in Callers :
        \/ BeginCreateAccount(k)
        \/ BeginAccount(k)
        \/ BeginAccounts(k)
        \/ Complete(k)
        \/ Take(k)

ConcSpec == Init /\ [][ConcNext]_vars

(***************************************************************************)
(* The webhook parser against any inbound push.                            *)
(***************************************************************************)
ContentTypes == {JSONMediaType, "application/json; charset=utf-8",
                 "text/plain", ""}
HookTypes == {"transactions", "error", "accounts", ""}
HookItems == {[id |-> 1, type |-> "credit", toAccountID |-> 1, value |-> 10,
               status |-> ""],
              [id |-> 2, type |-> "credit", toAccountID |-> 1, value |-> 5,
               status |-> "pending"],
              [id |-> 3]}
HookPayloads ==
    {PAbsent, PNull, PBad} \cup {PList(q) : q \in SeqsUpTo(HookItems, MaxItems)}
HookBodies ==
    {EmptyBody, GarbageBody}
    \cup {Envelope(t, "", p) : t \in HookTypes, p \in HookPayloads}

Push ==
    /\ Idle
    /\ \E h \in ContentTypes, b \in HookBodies :
        LET r == HookRequest(h, b)
            u == Unmarshal(r)
        IN /\ call' = [op |-> "Unmarshal", args |-> r, res |-> u.res,
                       bodyRead |-> u.bodyRead]
           /\ UNCHANGED <<cfg, accounts, nextID, issued, consumed, txns,
                          hooks, returned, moved, inflight>>

ParserNext ==
    \/ Push
    \/ Return

ParserSpec == Init /\ [][ParserNext]_vars

(***************************************************************************)
(* Properties.                                                             *)
(***************************************************************************)
Called(op) == call.op = op
Delivered == call.fault = "none"
Exists(id, accs) == id \in 1..Len(accs)
Count(q, Test(_)) == Cardinality({i \in 1..Len(q) : Test(q[i])})
InSeq(x, q) == \E i \in 1..Len(q) : q[i] = x
\* The response is an error envelope whose first message is m.
Rejected(m) ==
    /\ ~call.resp.terr
    /\ call.resp.body.k = "env"
    /\ call.resp.body.type = "error"
    /\ call.resp.body.payload.k = "list"
    /\ Len(call.resp.body.payload.items) > 0
    /\ Field(call.resp.body.payload.items[1], "message", "") = m

\* C1: whatever the sequence of Transfer and Debit calls (repeated calls,
\* calls whose request or response was lost), the calls made with one txID
\* cause at most one settlement, the ledger holds at most one transaction
\* per ID, and the request carries the txID the caller supplied.
C1_AtMostOneSettlement ==
    /\ \A t \in TxIDs : moved[t] <= 1
    /\ \A t \in TxIDs : LET Is(tx) == tx.id = t IN Count(txns, Is) <= 1
    /\ (Called("Transfer") \/ Called("Debit")) => call.req.body.id = call.args.txID

\* A Transfer repeated with the txID and arguments of a settled transfer.
C1_Witness ==
    /\ Called("Transfer")
    /\ Delivered
    /\ call.args.from # call.args.to
    /\ \E i \in 1..Len(call.pre.txns) :
          /\ call.pre.txns[i].id = call.args.txID
          /\ call.pre.txns[i].type = "transfer"
          /\ call.pre.txns[i].fromAccountID = call.args.from
          /\ call.pre.txns[i].toAccountID = call.args.to
          /\ call.pre.txns[i].value = call.args.value
    /\ call.res.kind = "err"
    /\ accounts = call.pre.accounts

\* C2: a Transfer or Debit that the service rejects because its txID is
\* consumed returns ErrTxIDUsed.
C2_TxIDUsedReturned ==
    ((Called("Transfer") \/ Called("Debit")) /\ Rejected("TxID used"))
        => call.res.err = ErrTxIDUsed

\* C3: a Transfer between two existing accounts whose value exceeds the
\* sender's balance leaves every balance unchanged and, when the response
\* arrives, returns ErrInsufficientFunds.
C3_InsufficientFunds ==
    (/\ Called("Transfer")
     /\ Exists(call.args.from, call.pre.accounts)
     /\ Exists(call.args.to, call.pre.accounts)
     /\ call.args.value > call.pre.accounts[call.args.from])
        => /\ accounts = call.pre.accounts
           /\ txns = call.pre.txns
           /\ Delivered => call.res = Fail(ErrInsufficientFunds)

C3_Witness ==
    /\ Called("Transfer")
    /\ Delivered
    /\ Exists(call.args.from, call.pre.accounts)
    /\ Exists(call.args.to, call.pre.accounts)
    /\ call.args.from # call.args.to
    /\ call.pre.accounts[call.args.from] = 5
    /\ call.args.value = 10
    /\ call.res.err = ErrInsufficientFunds

\* C4: a Debit that the service answers with the insufficient-funds error
\* returns ErrInsufficientFunds, as Transfer does.
C4_DebitInsufficientFunds ==
    (Called("Debit") /\ Rejected("insufficient funds"))
        => call.res.err = ErrInsufficientFunds

\* C5: the IDs of a successful CreateTransactionIDs(n) are n in number,
\* pairwise distinct, and none was returned by an earlier call.
C5_FreshIDs ==
    (Called("CreateTransactionIDs") /\ call.res.kind = "ok")
        => /\ Len(call.res.val) = call.args.n
           /\ \A i, j \in 1..Len(call.res.val) :
                 i # j => call.res.val[i] # call.res.val[j]
           /\ \A i \in 1..Len(call.res.val) :
                 call.res.val[i] \notin call.pre.returned

\* A successful CreateTransactionIDs(2) after an earlier successful call.
C5_Witness ==
    /\ Called("CreateTransactionIDs")
    /\ call.res.kind = "ok"
    /\ call.args.n = 2
    /\ call.pre.returned # {}

\* C6: a successful CreateTransactionIDs(n) returns exactly the IDs of the
\* stubs in the response payload, in order, for every payload.
C6_IDsOfPayload ==
    (Called("CreateTransactionIDs") /\ call.res.kind = "ok")
        => LET items == call.resp.body.payload.items IN
           /\ Len(items) = call.args.n
           /\ Len(call.res.val) = call.args.n
           /\ \A i \in 1..Len(items) : call.res.val[i] = Field(items[i], "id", 0)

\* C7: a successful Transfer(txID, A, B, v), A # B, lowers A's balance by v,
\* raises B's by v and records one transaction txID involving A and B;
\* Account returns the ledger's balance, Transaction(txID) the transaction
\* with that id, and AccountTransactions the account's transactions, each
\* once.
C7_TransferSettles ==
    /\ (Called("Transfer") /\ call.res.kind = "ok" /\ call.args.from # call.args.to)
          => LET a == call.args
                 Is(tx) == tx.id = a.txID
                 IsOfA(tx) == tx.id = a.txID /\ Involves(tx, a.from)
                 IsOfB(tx) == tx.id = a.txID /\ Involves(tx, a.to)
             IN /\ call.pre.accounts[a.from] >= a.value
                /\ accounts[a.from] = call.pre.accounts[a.from] - a.value
                /\ accounts[a.to] = call.pre.accounts[a.to] + a.value
                /\ \A i \in 1..Len(accounts) :
                      i \notin {a.from, a.to} => accounts[i] = call.pre.accounts[i]
                /\ Count(call.pre.txns, Is) = 0
                /\ Count(txns, IsOfA) = 1
                /\ Count(txns, IsOfB) = 1
    /\ (Called("Account") /\ call.res.kind = "ok")
          => call.res.val = [id |-> call.args.id, balance |-> accounts[call.args.id]]
    /\ (Called("Transaction") /\ Delivered)
          => LET Is(tx) == tx.id = call.args.id IN
             IF Count(txns, Is) > 0
             THEN call.res.kind = "ok" /\ call.res.val.id = call.args.id
             ELSE call.res.kind = "err"
    /\ (Called("AccountTransactions") /\ call.res.kind = "ok")
          => LET Mine(tx) == Involves(tx, call.args.id) IN
             call.res.val.txns = SelectSeq(txns, Mine)

\* The scenario: A was credited 10, Transfer(txID, A, B, 5) succeeded; the
\* balances are 5 and 5, A has two transactions and B one.
C7_Witness ==
    /\ Called("Transfer")
    /\ call.res.kind = "ok"
    /\ call.args.from # call.args.to
    /\ call.args.value = 5
    /\ call.pre.accounts[call.args.from] = 10
    /\ accounts[call.args.from] = 5
    /\ accounts[call.args.to] = 5
    /\ LET OfA(tx) == Involves(tx, call.args.from)
           OfB(tx) == Involves(tx, call.args.to)
       IN Count(txns, OfA) = 2 /\ Count(txns, OfB) = 1

\* C8: hooks are a set keyed by URL.  CreateHook of an unregistered URL
\* succeeds and registers it; CreateHook of a registered URL returns
\* ErrHookExists and adds nothing; DeleteHook of a registered URL succeeds,
\* removes it and shortens the list by one; Hooks returns the list.
C8_HookSet ==
    /\ \A i, j \in 1..Len(hooks) : i # j => hooks[i] # hooks[j]
    /\ (Called("CreateHook") /\ Delivered /\ ~InSeq(call.args.url, call.pre.hooks))
          => call.res.kind = "ok" /\ hooks = Append(call.pre.hooks, call.args.url)
    /\ (Called("CreateHook") /\ Delivered /\ InSeq(call.args.url, call.pre.hooks))
          => call.res = Fail(ErrHookExists) /\ hooks = call.pre.hooks
    /\ (Called("DeleteHook") /\ Delivered /\ InSeq(call.args.url, call.pre.hooks))
          => /\ call.res.kind = "ok"
             /\ ~InSeq(call.args.url, hooks)
             /\ Len(hooks) = Len(call.pre.hooks) - 1
    /\ (Called("Hooks") /\ call.res.kind = "ok")
          => call.res.val = [i \in 1..Len(hooks) |-> [url |-> hooks[i]]]

\* DeleteHook of one of two registered URLs.
C8_Witness ==
    /\ Called("DeleteHook")
    /\ call.res.kind = "ok"
    /\ Len(call.pre.hooks) = 2
    /\ InSeq(call.args.url, call.pre.hooks)
    /\ Len(hooks) = 1
    /\ ~InSeq(call.args.url, hooks)

\* C9: no response makes a call panic; every call returns a result or an
\* error.
C9_NoPanic == call.res.kind # "panic"

\* C10: for an envelope of type "error" the call returns an error: the
\* decode error if the payload is not a sequence of {message} objects,
\* otherwise an error with the message of the first element.
C10_ErrorEnvelope ==
    (/\ ~Called("none")
     /\ ~call.resp.terr
     /\ call.resp.body.k = "env"
     /\ call.resp.body.type = "error")
        => LET p == call.resp.body.payload IN
           /\ call.res.kind = "err"
           /\ UnmarshalList(p).err # NoErr => call.res.err = DecodeErr
           /\ (p.k = "list" /\ Len(p.items) > 0)
                 => call.res.err.msg = Field(p.items[1], "message", "")

\* C11: the status code decides the codec's outcome only for an empty body:
\* empty with 2xx is a success with empty cursor and no payload, empty with
\* another status is a malformed-response failure.  For a non-empty body the
\* outcome is the same for every status: a body that is not an envelope is a
\* malformed-response failure naming the request target and the raw body, an
\* envelope that is not an error is a success with its next and payload.
C11_StatusOnlyForEmptyBody ==
    (~Called("none") /\ ~call.resp.terr)
        => LET b == call.resp.body
               st == call.resp.status
               IsMalformed == /\ call.codec.kind = "err"
                              /\ "target" \in DOMAIN call.codec.err
                              /\ call.codec.err.target = call.req.target
                              /\ call.codec.err.body = b
           IN /\ (b.k = "empty" /\ st >= 200 /\ st < 300)
                    => call.codec = DoOk("", PAbsent)
              /\ (b.k = "empty" /\ (st < 200 \/ st >= 300)) => IsMalformed
              /\ b.k = "garbage" => IsMalformed
              /\ (b.k = "env" /\ b.type # "error")
                    => call.codec = DoOk(b.next, b.payload)
              /\ b.k # "empty"
                    => \A s2 \in WireStatus :
                          do(call.req, Response(s2, b)) = call.codec

\* Accounts answered with status 300 and an envelope: the call succeeds and
\* returns the envelope's cursor.
C11_Witness ==
    /\ Called("Accounts")
    /\ ~call.resp.terr
    /\ call.resp.status = 300
    /\ call.resp.body.k = "env"
    /\ call.codec.kind = "ok"
    /\ call.codec.next = "cursor"
    /\ call.res.kind = "ok"
    /\ call.res.val.next = "cursor"

\* C12: CreateAccount, Account and CreateAddress succeed only when the
\* decoded payload has exactly one element, and then return that element;
\* a payload that decodes to no element or to several yields an error.
C12_ExactlyOne ==
    (Called("CreateAccount") \/ Called("Account") \/ Called("CreateAddress"))
        => LET p == call.codec.payload IN
           /\ call.res.kind = "ok"
                 => /\ call.codec.kind = "ok"
                    /\ p.k = "list"
                    /\ Len(p.items) = 1
                    /\ call.res.val = IF Called("CreateAddress")
                                      THEN Field(p.items[1], "address", <<>>)
                                      ELSE ToAccount(p.items[1])
           /\ (call.codec.kind = "ok" /\ (p.k # "list" \/ Len(p.items) # 1))
                 => call.res.kind = "err"
           /\ (call.codec.kind = "ok" /\ p.k \in {"list", "null"} /\ Len(p.items) # 1)
                 => call.res = Fail(ErrorsNew(IF Called("CreateAddress")
                                              THEN "expected one address"
                                              ELSE "expected one account"))

\* CreateAccount answered with a payload of two accounts.
C12_Witness ==
    /\ Called("CreateAccount")
    /\ call.codec.kind = "ok"
    /\ call.codec.payload.k = "list"
    /\ Len(call.codec.payload.items) = 2
    /\ call.res = Fail(ErrorsNew("expected one account"))

\* C13: an account returned by CreateAccount has a non-zero id, new to the
\* service, and balance 0; Account(id) of an account no transaction has
\* touched since it was created returns that id with balance 0; Accounts()
\* lists every account created, exactly the one when one was created.
C13_AccountRoundTrip ==
    /\ (Called("CreateAccount") /\ call.res.kind = "ok")
          => /\ call.res.val.id # 0
             /\ call.res.val.balance = 0
             /\ ~Exists(call.res.val.id, call.pre.accounts)
             /\ Exists(call.res.val.id, accounts)
    /\ (/\ Called("Account")
        /\ Delivered
        /\ Exists(call.args.id, call.pre.accounts)
        /\ \A i \in 1..Len(call.pre.txns) : ~Involves(call.pre.txns[i], call.args.id))
          => call.res = Ok([id |-> call.args.id, balance |-> 0])
    /\ (Called("Accounts") /\ Delivered)
          => /\ call.res.kind = "ok"
             /\ Len(call.res.val.accs) = Len(accounts)
             /\ \A id \in 1..Len(accounts) :
                   InSeq([id |-> id, balance |-> accounts[id]], call.res.val.accs)
             /\ Len(accounts) = 1
                   => call.res.val.accs = <<[id |-> 1, balance |-> accounts[1]]>>

\* Account(2) of the second account created, untouched, while the first
\* holds 10.
C13_Witness ==
    /\ Called("Account")
    /\ call.args.id = 2
    /\ Len(accounts) = 2
    /\ accounts[1] = 10
    /\ call.res = Ok([id |-> 2, balance |-> 0])

C15_Dispatch ==
    (/\ Called("Unmarshal")
     /\ call.args.contentType = JSONMediaType
     /\ call.args.body.k = "env")
        => LET b == call.args.body
               items == b.payload.items
           IN /\ (b.type = "transactions" /\ b.payload.k = "list")
                    => /\ call.res.kind = "ok"
                       /\ Len(call.res.val) = Len(items)
                       /\ \A i \in 1..Len(items) :
                             call.res.val[i] = ToTransactionEvent(items[i])
              /\ (b.type = "transactions" /\ b.payload.k # "list")
                    => call.res.val = <<>>
              /\ b.type # "transactions"
                    => /\ call.res.kind = "err"
                       /\ call.res.val = <<>>
                       /\ call.res.err = UnknownTypeErr(b.type)
                       /\ call.res.err.tag = b.type

\* A push of two events, the pending one first.
C15_Witness ==
    /\ Called("Unmarshal")
    /\ call.res.kind = "ok"
    /\ Len(call.res.val) = 2
    /\ call.res.val[1].id = 2
    /\ call.res.val[1].status = "pending"
    /\ call.res.val[2].id = 1
    /\ call.res.val[2].status = ""

C17_OneRequest ==
    (~Called("none") /\ ~Called("Credit"))
        => /\ call.sent = 1
           /\ call.resp.terr => call.res = Fail(TransportErr)
           /\ (~call.resp.terr /\ call.resp.body.type = "error")
                 => call.res.kind = "err"
           /\ call.fault = "request lost"
                 => accounts = call.pre.accounts /\ txns = call.pre.txns
           /\ Len(txns) <= Len(call.pre.txns) + 1

\* A Transfer whose response was lost after the service settled it: the
\* call returns the transport error and has sent one request.
C17_Witness ==
    /\ Called("Transfer")
    /\ call.fault = "response lost"
    /\ Len(txns) = Len(call.pre.txns) + 1
    /\ call.res = Fail(TransportErr)
    /\ call.sent = 1

Sets(s, k) == \E i \in 1..Len(s) : s[i].key = k
LastValue(s, k) ==
    LET i == CHOOSE i \in 1..Len(s) :
                 s[i].key = k /\ \A j \in (i + 1)..Len(s) : s[j].key # k
    IN s[i].value
Swap(s, i) ==
    [j \in 1..Len(s) |-> IF j = i THEN s[i + 1] ELSE IF j = i + 1 THEN s[i] ELSE s[j]]
Twice(s, i) == SubSeq(s, 1, i) \o <<s[i]>> \o SubSeq(s, i + 1, Len(s))

\* C18: for any sequence of Limit, Next and Pending options passed to
\* Accounts or AccountTransactions, the query of the request holds, for each
\* key an option sets, exactly one value, that of the last option setting
\* it, and nothing for the other keys; swapping two neighbouring options on
\* different keys, or applying an option twice, gives the same query.
C18_LastWriterWins ==
    (Called("Accounts") \/ Called("AccountTransactions"))
        => LET s == call.args.options
               q == call.req.query
               v == ParseQuery(q)
               keys == {QueryKeys[i] : i \in 1..Len(QueryKeys)}
           IN /\ \A k \in keys :
                    v[k] = IF Sets(s, k) THEN <<LastValue(s, k)>> ELSE <<>>
              /\ Len(q) = Cardinality({k \in keys : Sets(s, k)})
              /\ \A i \in 1..Len(q) : q[i][1] \in keys
              /\ \A i \in 1..(Len(s) - 1) :
                    s[i].key # s[i + 1].key => ApplyOptions(Swap(s, i)) = q
              /\ \A i \in 1..Len(s) : ApplyOptions(Twice(s, i)) = q

\* AccountTransactions with Limit(1), Next("a &"), Limit(10): the query is
\* limit=10&next=a+%26.
C18_Witness ==
    /\ Called("AccountTransactions")
    /\ call.args.options = <<Limit(1), NextOption(<<97, 32, 38>>), Limit(10)>>
    /\ call.req.query = << <<"limit", <<49, 48>> >>,
                           <<"next", <<97, 43, 37, 50, 54>> >> >>

\* C19: Transaction(id) returns a transaction only when the decoded payload
\* holds exactly one, and returns that one; when the codec hands it a
\* payload that decodes to no element or to several it returns an error: it
\* neither panics nor returns the first of several.
C19_TransactionExactlyOne ==
    (Called("Transaction") /\ call.codec.kind = "ok")
        => LET p == call.codec.payload IN
           /\ call.res.kind # "panic"
           /\ call.res.kind = "ok"
                 => /\ p.k = "list"
                    /\ Len(p.items) = 1
                    /\ call.res.val = ToTransaction(p.items[1])
           /\ (p.k # "list" \/ Len(p.items) # 1) => call.res.kind = "err"
====
